---- MODULE Spec2Model ----
(***************************************************************************)
(* Model of pennylane/templates/layers.py (Interferometer) and of          *)
(* pennylane/utils.py (_flatten, _unflatten, unflatten).                   *)
(*                                                                         *)
(* Both are sequential, deterministic functions.  Each is an operator that *)
(* computes what the Python code computes (loops become RECURSIVE          *)
(* operators that walk the same index ranges in the same order), and one   *)
(* action per function applies it to inputs drawn from bounded sets.       *)
(* The operation queue that Rotation(...) and Beamsplitter(...) append to  *)
(* is the variable `queue`; an uncaught Python exception is `raised`.      *)
(***************************************************************************)
EXTENDS Integers, Sequences, FiniteSets, TLC

VARIABLES
    call,     \* the call in progress: function name and its arguments
    queue,    \* operations queued by Rotation(...) / Beamsplitter(...), in order
    result,   \* value returned by the call (NoValue if it raised or returns None)
    raised    \* exception that ended the call, "none" if it returned

vars == <<call, queue, result, raised>>

\* ---------------------------------------------------------------- bounds

\* largest number of wires of an Interferometer call
MaxN == 5

\* largest length of a flat sequence handed to unflatten / _unflatten
MaxFlat == 5

\* ------------------------------------------------------- Python helpers

NoCall == [fn |-> "none"]
NoValue == [k |-> "None"]

\* abs(x)
Abs(x) == IF x < 0 THEN 0 - x ELSE x

\* an instance of pennylane.variable.Variable passed where a string is expected
VAR == "Variable()"

\* isinstance(x, Variable) for the mesh / beamsplitter keyword arguments
IsVariable(x) == x = VAR

\* N(N-1)/2, the documented length of theta and phi
NumBS(N) == (N * (N - 1)) \div 2

\* an angle array of the given length whose j-th (0-based) entry is <<name, j>>
Params(name, len) == [j \in 1..len |-> <<name, j - 1>>]

\* the literal 0 passed as the beamsplitter phase under the clements convention
Zero == <<"0", 0>>

\* ---------------------------------------------------- operation queue

\* Rotation(angle, wires=[w1]) appends one operation; `layer` records the loop
\* layer l during which it was queued (-1 outside the mesh loops)
RotationOp(angle, w1, layer) ==
    [name |-> "Rotation", par |-> <<angle>>, wires |-> <<w1>>, layer |-> layer]

\* Beamsplitter(t, p, wires=[w1, w2]) appends one operation
BeamsplitterOp(t, p, w1, w2, layer) ==
    [name |-> "Beamsplitter", par |-> <<t, p>>, wires |-> <<w1, w2>>, layer |-> layer]

\* The running state of one Interferometer call: the free-parameter counter n,
\* the operations queued so far and the exception raised, if any.
Start == [n |-> 0, ops |-> <<>>, exc |-> "none"]

Fail(st, e) == [st EXCEPT !.exc = e]

Emit(st, op) == [st EXCEPT !.ops = Append(@, op)]

\* 0-based arr[i] is defined iff 0 <= i < len(arr); otherwise IndexError
InRange(arr, i) == 0 <= i /\ i < Len(arr)

\* ------------------------------------------------------- Interferometer

\* (mutant of EmitPairClements: the phase rotation put on the second wire)
EmitPairClementsOnW2(c, w1, w2, l, st) ==
    IF ~InRange(c.phi, st.n) THEN Fail(st, "IndexError")
    ELSE LET r == Emit(st, RotationOp(c.phi[st.n + 1], w2, l))
         IN IF ~InRange(c.theta, st.n) THEN Fail(r, "IndexError")
            ELSE [Emit(r, BeamsplitterOp(c.theta[st.n + 1], Zero, w1, w2, l))
                      EXCEPT !.n = @ + 1]

\* the body executed for one included pair (w1, w2): lines 324-329 and 336-341
EmitPairClements(c, w1, w2, l, st) ==
    IF ~InRange(c.phi, st.n) THEN Fail(st, "IndexError")
    ELSE LET r == Emit(st, RotationOp(c.phi[st.n + 1], w1, l))
         IN IF ~InRange(c.theta, st.n) THEN Fail(r, "IndexError")
            ELSE [Emit(r, BeamsplitterOp(c.theta[st.n + 1], Zero, w1, w2, l))
                      EXCEPT !.n = @ + 1]

EmitPairFused(c, w1, w2, l, st) ==
    IF ~InRange(c.theta, st.n) \/ ~InRange(c.phi, st.n) THEN Fail(st, "IndexError")
    ELSE [Emit(st, BeamsplitterOp(c.theta[st.n + 1], c.phi[st.n + 1], w1, w2, l))
              EXCEPT !.n = @ + 1]

EmitPair(c, w1, w2, l, st) ==
    IF c.beamsplitter = "clements"
    THEN EmitPairClements(c, w1, w2, l, st)
    ELSE EmitPairFused(c, w1, w2, l, st)

\* (mutant of RectIncluded: the parity test inverted)
RectIncludedOdd(l, k) == (l + k) % 2 # 0

\* line 323: skip even or odd pairs depending on layer
RectIncluded(l, k) == (l + k) % 2 # 1

\* (mutant of RectDepth: one layer too many)
RectDepthOneMore(N) == N + 1

\* line 320: range(N), the depth of the rectangular array
RectDepth(N) == N

\* line 321: for k, (w1, w2) in enumerate(zip(w[:-1], w[1:])), from pair index k on
RECURSIVE RectPairs(_, _, _, _, _)
RectPairs(c, w, l, k, st) ==
    IF st.exc # "none" \/ k >= Len(w) - 1 THEN st
    ELSE RectPairs(c, w, l, k + 1,
                   IF RectIncluded(l, k)
                   THEN EmitPair(c, w[k + 1], w[k + 2], l, st)
                   ELSE st)

\* line 320: for l in range(N), from layer l on
RECURSIVE RectLayers(_, _, _, _)
RectLayers(c, w, l, st) ==
    IF st.exc # "none" \/ l >= RectDepth(Len(w)) THEN st
    ELSE RectLayers(c, w, l + 1, RectPairs(c, w, l, 0, st))

\* line 334: range(2*N-3), the depth of the triangular array
TriDepth(N) == 2 * N - 3

\* (mutant of TriFirst: the layer offset dropped)
TriFirstNoOffset(l, N) == Abs(l - (N - 1))

\* line 335: the first pair index of layer l, abs(l+1-(N-1))
TriFirst(l, N) == Abs(l + 1 - (N - 1))

\* line 335: for k in range(abs(l+1-(N-1)), N-1, 2), from pair index k on
RECURSIVE TriPairs(_, _, _, _, _)
TriPairs(c, w, l, k, st) ==
    IF st.exc # "none" \/ k >= Len(w) - 1 THEN st
    ELSE TriPairs(c, w, l, k + 2, EmitPair(c, w[k + 1], w[k + 2], l, st))

\* line 334: for l in range(2*N-3), from layer l on
RECURSIVE TriLayers(_, _, _, _)
TriLayers(c, w, l, st) ==
    IF st.exc # "none" \/ l >= TriDepth(Len(w)) THEN st
    ELSE TriLayers(c, w, l + 1, TriPairs(c, w, l, TriFirst(l, Len(w)), st))

\* (mutant of FinalRotations: the wires taken from the last one backwards)
RECURSIVE FinalRotationsReversed(_, _, _, _)
FinalRotationsReversed(c, w, i, st) ==
    IF st.exc # "none" \/ i >= Len(c.varphi) THEN st
    ELSE IF ~InRange(w, i) THEN Fail(st, "IndexError")
    ELSE FinalRotationsReversed(c, w, i + 1,
                                Emit(st, RotationOp(c.varphi[i + 1], w[Len(w) - i], -1)))

\* lines 344-345: for i, p in enumerate(varphi): Rotation(p, wires=[w[i]]), from i on
RECURSIVE FinalRotations(_, _, _, _)
FinalRotations(c, w, i, st) ==
    IF st.exc # "none" \/ i >= Len(c.varphi) THEN st
    ELSE IF ~InRange(w, i) THEN Fail(st, "IndexError")
    ELSE FinalRotations(c, w, i + 1, Emit(st, RotationOp(c.varphi[i + 1], w[i + 1], -1)))

\* lines 303-306: a bare wire (not a Sequence) is wrapped into a one-element list
WireList(wires) == IF ~wires.isSequence THEN <<wires.labels[1]>> ELSE wires.labels

\* (mutant of Mesh: a name that is not 'triangular' falls back to the
\* rectangular mesh)
MeshDefaultRectangular(c, w) ==
    IF c.mesh = "triangular" THEN TriLayers(c, w, 0, Start)
    ELSE RectLayers(c, w, 0, Start)

\* lines 315-341: the beamsplitter mesh
Mesh(c, w) ==
    IF c.mesh = "rectangular" THEN RectLayers(c, w, 0, Start)
    ELSE IF c.mesh = "triangular" THEN TriLayers(c, w, 0, Start)
    ELSE Start

\* (mutant of Interferometer: no shortcut for a single wire, which goes
\* through the mesh and the final rotations like any other wire count)
InterferometerNoShortcut(c) ==
    IF IsVariable(c.beamsplitter) THEN Fail(Start, "QuantumFunctionError")
    ELSE IF IsVariable(c.mesh) THEN Fail(Start, "QuantumFunctionError")
    ELSE LET w == WireList(c.wires)
         IN FinalRotations(c, w, 0, Mesh(c, w))

\* (mutant of Interferometer: the single-wire shortcut taken before the mesh
\* argument is checked)
InterferometerLateCheck(c) ==
    IF IsVariable(c.beamsplitter) THEN Fail(Start, "QuantumFunctionError")
    ELSE LET w == WireList(c.wires)
             N == Len(w)
         IN IF N = 1
            THEN IF ~InRange(c.varphi, 0) THEN Fail(Start, "IndexError")
                 ELSE Emit(Start, RotationOp(c.varphi[1], w[1], -1))
            ELSE IF IsVariable(c.mesh) THEN Fail(Start, "QuantumFunctionError")
            ELSE FinalRotations(c, w, 0, Mesh(c, w))

\* lines 295-345: the whole function; c holds its arguments
Interferometer(c) ==
    IF IsVariable(c.beamsplitter) THEN Fail(Start, "QuantumFunctionError")
    ELSE IF IsVariable(c.mesh) THEN Fail(Start, "QuantumFunctionError")
    ELSE LET w == WireList(c.wires)
             N == Len(w)
         IN IF N = 1
            THEN IF ~InRange(c.varphi, 0) THEN Fail(Start, "IndexError")
                 ELSE Emit(Start, RotationOp(c.varphi[1], w[1], -1))
            ELSE FinalRotations(c, w, 0, Mesh(c, w))

\* ------------------------------------------------- nested parameter models

(***************************************************************************)
(* Python values handled by pennylane/utils.py.                            *)
(*   number    [k |-> "num", ty, i, half]   the value i (+ 1/2 if half);   *)
(*                                          ty is "int" or "float"         *)
(*   Variable  [k |-> "var", idx]                                          *)
(*   list      [k |-> "list", items]                                       *)
(*   tuple     [k |-> "tuple", items]                                      *)
(*   ndarray   [k |-> "array", dtype, shape, data]  data in row-major      *)
(*                                          order, dtype one of "int64",   *)
(*                                          "float64", "object"            *)
(***************************************************************************)
Num(ty, i, half) == [k |-> "num", ty |-> ty, i |-> i, half |-> half]
Variable(idx) == [k |-> "var", idx |-> idx]
List(items) == [k |-> "list", items |-> items]
Tuple(items) == [k |-> "tuple", items |-> items]
Array(dtype, shape, data) == [k |-> "array", dtype |-> dtype, shape |-> shape, data |-> data]

IsLeaf(x) == x.k \in {"num", "var"}

\* the concatenation of a sequence of sequences
RECURSIVE Concat(_)
Concat(ss) == IF ss = <<>> THEN <<>> ELSE Head(ss) \o Concat(Tail(ss))

\* the product of the entries of a shape (1 for the rank-0 shape)
RECURSIVE Prod(_)
Prod(shape) == IF shape = <<>> THEN 1 ELSE Head(shape) * Prod(Tail(shape))

\* s[from+1 .. from+len]
Slice(s, from, len) == [j \in 1..len |-> s[from + j]]

\* lines 46-63: _flatten(x), as the list of what the generator yields
RECURSIVE _flatten(_)
_flatten(x) ==
    IF x.k = "array"
    THEN Concat([j \in 1..Len(x.data) |-> _flatten(x.data[j])])
    ELSE IF x.k \in {"list", "tuple"}
         THEN Concat([j \in 1..Len(x.items) |-> _flatten(x.items[j])])
    ELSE <<x>>

\* numpy's conversion of one element to a dtype: object keeps the Python
\* object, float64 keeps a number's value, int64 truncates it, and a
\* Variable has no numeric value (TypeError)
CastFails(x, dtype) == dtype # "object" /\ x.k = "var"

Cast(x, dtype) ==
    IF dtype = "object" \/ x.k # "num" THEN x
    ELSE IF dtype = "float64" THEN Num("float", x.i, x.half)
    ELSE Num("int", x.i, FALSE)

\* line 144: np.asarray(flat) of a flat list: a Variable makes an object array
\* (elements kept), otherwise a float makes every element a float
AsArray(flat) ==
    IF \E j \in 1..Len(flat) : flat[j].k = "var" THEN flat
    ELSE IF \E j \in 1..Len(flat) : flat[j].ty = "float"
         THEN [j \in 1..Len(flat) |-> Cast(flat[j], "float64")]
    ELSE flat

\* lines 82-85: the logical length l of a container
LogicalLength(model) ==
    IF model.k = "array"
    THEN (IF model.shape # <<>> THEN model.shape[1] ELSE 0)
    ELSE Len(model.items)

\* the j-th (1-based) element that `for x in model` yields
Element(model, j) ==
    IF model.k # "array" THEN model.items[j]
    ELSE IF Len(model.shape) = 1 THEN model.data[j]
    ELSE LET sub == Tail(model.shape)
         IN Array(model.dtype, sub, Slice(model.data, (j - 1) * Prod(sub), Prod(sub)))

\* np.array(list_of_children, dtype=dtype): the children are leaves or arrays
\* of one shape; every element is converted to dtype
ChildShape(x) == IF x.k = "array" THEN x.shape ELSE <<>>
ChildData(x) == IF x.k = "array" THEN x.data ELSE <<x>>

NpArray(children, dtype) ==
    LET data == Concat([j \in 1..Len(children) |-> ChildData(children[j])])
    IN IF \E j \in 1..Len(data) : CastFails(data[j], dtype)
       THEN [res |-> NoValue, exc |-> "TypeError"]
       ELSE [res |-> Array(dtype, <<Len(children)>> \o ChildShape(children[1]),
                           [j \in 1..Len(data) |-> Cast(data[j], dtype)]),
             exc |-> "none"]

\* lines 115-116: a result of a recursive call sets encountered_variable
SetsEncountered(res) == res.k = "var"

\* lines 122-126: Unflattener.dtype()
UnflattenerDtype(model, encountered_variable) ==
    IF encountered_variable THEN "object" ELSE model.dtype

\* lines 86-90: a container of logical length 0
ZeroLength(flat, model) ==
    IF model.k = "array"
    THEN IF flat = <<>> THEN [res |-> NoValue, tail |-> flat, exc |-> "IndexError"]
         ELSE IF CastFails(Head(flat), model.dtype)
              THEN [res |-> NoValue, tail |-> flat, exc |-> "TypeError"]
         ELSE [res |-> Array(model.dtype, <<>>, <<Cast(Head(flat), model.dtype)>>),
               tail |-> Tail(flat), exc |-> "none"]
    ELSE [res |-> Tuple(<<>>), tail |-> flat, exc |-> "none"]

\* lines 66-137: _unflatten(flat, model) returns (res, tail) or raises exc.
\* Every model below is a number, a Variable, a list, a tuple or an ndarray,
\* so the TypeError of line 137 (unsupported type) is not reached.
\* Gen is Unflattener.gen() from element j on: acc holds the results yielded
\* so far, tail is self.flat, enc is self.encountered_variable.
RECURSIVE _unflatten(_, _), Gen(_, _, _, _, _)
Gen(model, j, acc, tail, enc) ==
    IF j > LogicalLength(model) THEN [acc |-> acc, tail |-> tail, enc |-> enc, exc |-> "none"]
    ELSE LET r == _unflatten(tail, Element(model, j))
         IN IF r.exc # "none" THEN [acc |-> acc, tail |-> tail, enc |-> enc, exc |-> r.exc]
            ELSE Gen(model, j + 1, Append(acc, r.res), r.tail, enc \/ SetsEncountered(r.res))

_unflatten(flat, model) ==
    IF IsLeaf(model)
    THEN IF flat = <<>> THEN [res |-> NoValue, tail |-> flat, exc |-> "IndexError"]
         ELSE [res |-> Head(flat), tail |-> Tail(flat), exc |-> "none"]
    ELSE IF LogicalLength(model) = 0 THEN ZeroLength(flat, model)
    ELSE LET g == Gen(model, 1, <<>>, flat, FALSE)
         IN IF g.exc # "none" THEN [res |-> NoValue, tail |-> g.tail, exc |-> g.exc]
            ELSE IF model.k = "array"
                 THEN LET a == NpArray(g.acc, UnflattenerDtype(model, g.enc))
                      IN [res |-> a.res, tail |-> g.tail, exc |-> a.exc]
            ELSE [res |-> [k |-> model.k, items |-> g.acc], tail |-> g.tail, exc |-> "none"]

\* lines 140-149: unflatten(flat, model)
unflatten(flat, model) ==
    LET r == _unflatten(AsArray(flat), model)
    IN IF r.exc # "none" THEN [res |-> NoValue, exc |-> r.exc]
       ELSE IF Len(r.tail) # 0 THEN [res |-> NoValue, exc |-> "ValueError"]
       ELSE [res |-> r.res, exc |-> "none"]

\* ------------------------------------------------------------ the inputs

MeshValues == {"rectangular", "triangular", "rectangle", VAR}
BeamsplitterValues == {"pennylane", "clements", "clement", VAR}

\* wires 0..N-1 in order, and N distinct labels in another order
Ascending(N) == [i \in 1..N |-> i - 1]
Descending(N) == [i \in 1..N |-> 10 + N - i]

WiresValues ==
    {[isSequence |-> FALSE, labels |-> <<7>>]}
    \cup {[isSequence |-> TRUE, labels |-> Ascending(N)] : N \in 1..MaxN}
    \cup {[isSequence |-> TRUE, labels |-> Descending(N)] : N \in 1..MaxN}

InterferometerCalls ==
    UNION {
        {[fn |-> "Interferometer",
          theta |-> Params("theta", NumBS(Len(ws.labels))),
          phi |-> Params("phi", NumBS(Len(ws.labels))),
          varphi |-> Params("varphi", nv),
          wires |-> ws, mesh |-> m, beamsplitter |-> b]
            : nv \in 0..(Len(ws.labels) + 1), m \in MeshValues, b \in BeamsplitterValues}
        : ws \in WiresValues}

\* leaves: the int 2, the float 1.5 and a Variable
Int2 == Num("int", 2, FALSE)
Flt15 == Num("float", 1, TRUE)
V0 == Variable(0)

FlatLeaves == {Int2, Flt15, V0}

\* the flat sequences of length 0..MaxFlat over the leaves
Flats == UNION {[1..len -> FlatLeaves] : len \in 0..MaxFlat}

\* the j-th (0-based) element an array model of the given dtype is filled with:
\* 2, 3, 2, ... / 1.5, 2.5, 3.5, 1.5, ... / Variable, 1.5, Variable, ...
Fill(dtype, j) ==
    IF dtype = "int64" THEN Num("int", 2 + (j % 2), FALSE)
    ELSE IF dtype = "float64" THEN Num("float", 1 + (j % 3), TRUE)
    ELSE IF j % 2 = 0 THEN V0 ELSE Flt15

ArrayModel(dtype, shape) == Array(dtype, shape, [j \in 1..Prod(shape) |-> Fill(dtype, j - 1)])

Dtypes == {"int64", "float64", "object"}

\* rank 0, empty and non-empty rank 1, rank 2 (also with a zero extent), rank 3
Shapes == {<<>>, <<0>>, <<1>>, <<2>>, <<0, 2>>, <<2, 0>>, <<1, 2>>, <<2, 1>>,
           <<2, 2>>, <<1, 1, 2>>}

ArrayModels == {ArrayModel(d, sh) : d \in Dtypes, sh \in Shapes}

ContainerModels ==
    {List(<<>>), Tuple(<<>>),
     List(<<Int2>>), Tuple(<<Int2, Flt15>>), List(<<V0, Int2>>),
     List(<<List(<<Int2>>), Tuple(<<Flt15, V0>>)>>),
     Tuple(<<List(<<>>), Int2>>), List(<<Tuple(<<>>), Flt15>>),
     Tuple(<<ArrayModel("float64", <<2>>), V0>>),
     List(<<ArrayModel("int64", <<>>), ArrayModel("object", <<1>>)>>),
     List(<<ArrayModel("float64", <<1, 2>>), Int2>>),
     Tuple(<<ArrayModel("int64", <<0>>), Flt15>>)}

Models == FlatLeaves \cup ArrayModels \cup ContainerModels

\* a flat sequence for a model: any of Flats, or the model's own flattening
FlatsFor(model) == Flats \cup {_flatten(model)}

\* ------------------------------------------------------------ the actions

Init ==
    /\ call = NoCall
    /\ queue = <<>>
    /\ result = NoValue
    /\ raised = "none"

\* one call of Interferometer on a fresh operation queue
CallInterferometer ==
    /\ call = NoCall
    /\ \E c \in InterferometerCalls :
         LET r == Interferometer(c)
         IN /\ call' = c
            /\ queue' = r.ops
            /\ result' = [k |-> "None", n |-> r.n]
            /\ raised' = r.exc

\* the caller takes the outcome; the next call starts from a fresh queue
Return ==
    /\ call # NoCall
    /\ call' = NoCall
    /\ queue' = <<>>
    /\ result' = NoValue
    /\ raised' = "none"

\* list(_flatten(model))
CallFlatten ==
    /\ call = NoCall
    /\ \E m \in Models :
         /\ call' = [fn |-> "_flatten", model |-> m]
         /\ result' = [k |-> "flat", items |-> _flatten(m)]
         /\ UNCHANGED <<queue, raised>>

\* _unflatten(np.asarray(flat), model), returning (res, tail)
CallUnflattenPair ==
    /\ call = NoCall
    /\ \E m \in Models : \E f \in FlatsFor(m) :
         LET r == _unflatten(AsArray(f), m)
         IN /\ call' = [fn |-> "_unflatten", flat |-> AsArray(f), model |-> m]
            /\ result' = IF r.exc # "none" THEN NoValue
                          ELSE [k |-> "pair", res |-> r.res, tail |-> r.tail]
            /\ raised' = r.exc
            /\ UNCHANGED queue

\* unflatten(flat, model)
CallUnflatten ==
    /\ call = NoCall
    /\ \E m \in Models : \E f \in FlatsFor(m) :
         LET r == unflatten(f, m)
         IN /\ call' = [fn |-> "unflatten", flat |-> f, model |-> m]
            /\ result' = r.res
            /\ raised' = r.exc
            /\ UNCHANGED queue

Next == CallInterferometer \/ CallFlatten \/ CallUnflattenPair \/ CallUnflatten \/ Return

Spec == Init /\ [][Next]_vars

\* ------------------------------------------------ reading the queue

\* an Interferometer call whose mesh and beamsplitter are concrete values
ConcreteCall ==
    /\ call.fn = "Interferometer"
    /\ ~IsVariable(call.mesh)
    /\ ~IsVariable(call.beamsplitter)

\* such a call on N >= 2 wires with one of the two documented meshes
MeshCall ==
    /\ ConcreteCall
    /\ Len(WireList(call.wires)) >= 2
    /\ call.mesh \in {"rectangular", "triangular"}

IsBeamsplitter(op) == op.name = "Beamsplitter"
IsRotation(op) == op.name = "Rotation"

\* the queued beamsplitters, in emission order
Beamsplitters == SelectSeq(queue, IsBeamsplitter)

\* the pair index k of a beamsplitter on (w[k], w[k+1]); -1 if it is on no
\* adjacent pair of the wire list w
PairIndex(op, w) ==
    IF \E k \in 0..(Len(w) - 2) : op.wires = <<w[k + 1], w[k + 2]>>
    THEN CHOOSE k \in 0..(Len(w) - 2) : op.wires = <<w[k + 1], w[k + 2]>>
    ELSE -1

\* the indices at which the queued operations read the array called name,
\* in emission order
ReadsOf(name) ==
    LET Reads(op) == [j \in 1..Len(op.par) |-> op.par[j]]
        all == Concat([i \in 1..Len(queue) |-> Reads(queue[i])])
        IsName(p) == p[1] = name
        sel == SelectSeq(all, IsName)
    IN [j \in 1..Len(sel) |-> sel[j][2]]

\* 0, 1, ..., len-1
Counting(len) == [j \in 1..len |-> j - 1]

\* ------------------------------------------------------------ claims

\* C1: for N >= 2 and both meshes one call emits exactly N(N-1)/2
\* beamsplitters; the j-th reads theta[j] and phi[j] (the counter n runs
\* 0 .. N(N-1)/2 - 1, each index read once, none past the end of theta or
\* phi, so no IndexError comes from them); every beamsplitter acts on two
\* adjacent positions k, k+1 of the wire list with 0 <= k and k+1 < N.
C1_MeshCount ==
    MeshCall =>
        LET w == WireList(call.wires)
            N == Len(w)
            bs == Beamsplitters
        IN /\ 2 * Len(bs) = N * (N - 1)
           /\ 2 * result.n = N * (N - 1)
           /\ ReadsOf("theta") = Counting(Len(bs))
           /\ ReadsOf("phi") = Counting(Len(bs))
           /\ \A j \in 1..Len(bs) : bs[j].par[1] = <<"theta", j - 1>>
           /\ \A j \in 1..Len(bs) : j - 1 < Len(call.theta) /\ j - 1 < Len(call.phi)
           /\ (Len(call.varphi) <= N => raised = "none")
           /\ \A j \in 1..Len(bs) :
                /\ PairIndex(bs[j], w) >= 0
                /\ PairIndex(bs[j], w) + 1 < N
                /\ bs[j].wires[1] # bs[j].wires[2]

\* C1 witness: a triangular mesh on at least 4 wires has returned with its
\* N(N-1)/2 >= 6 beamsplitters queued
C1_Witness ==
    /\ MeshCall
    /\ call.mesh = "triangular"
    /\ Len(WireList(call.wires)) >= 4
    /\ raised = "none"
    /\ Len(Beamsplitters) >= 6


\* the pair indices of the queued beamsplitters, in emission order
PairIndices(ops, w) ==
    LET bs == SelectSeq(ops, IsBeamsplitter)
    IN [j \in 1..Len(bs) |-> PairIndex(bs[j], w)]

\* the beamsplitters are queued layer by layer and, within a layer, by
\* increasing pair index
InScanOrder(bs, w) ==
    \A i, j \in 1..Len(bs) :
        i < j => \/ bs[i].layer < bs[j].layer
                 \/ /\ bs[i].layer = bs[j].layer
                    /\ PairIndex(bs[i], w) < PairIndex(bs[j], w)

\* C6: with mesh='rectangular' on N >= 2 wires the beamsplitters are emitted
\* layer by layer for l = 0..N-1 and within a layer by increasing pair index
\* k = 0..N-2; the pair (w[k], w[k+1]) is emitted in layer l iff l + k is
\* even; no wire is acted on by two beamsplitters of one layer; the first
\* beamsplitter acts on w[0], w[1]; for N = 4 the pair indices are
\* 0, 2, 1, 0, 2, 1.
C6_Rectangular ==
    (MeshCall /\ call.mesh = "rectangular") =>
        LET w == WireList(call.wires)
            N == Len(w)
            bs == Beamsplitters
        IN /\ \A j \in 1..Len(bs) :
                bs[j].layer \in 0..(N - 1) /\ PairIndex(bs[j], w) \in 0..(N - 2)
           /\ InScanOrder(bs, w)
           /\ \A l \in 0..(N - 1) : \A k \in 0..(N - 2) :
                (\E j \in 1..Len(bs) : bs[j].layer = l /\ PairIndex(bs[j], w) = k)
                    <=> ((l + k) % 2 = 0)
           /\ \A i, j \in 1..Len(bs) :
                (i # j /\ bs[i].layer = bs[j].layer) =>
                    {bs[i].wires[1], bs[i].wires[2]}
                        \cap {bs[j].wires[1], bs[j].wires[2]} = {}
           /\ Len(bs) >= 1
           /\ bs[1].wires = <<w[1], w[2]>>
           /\ (N = 4 => PairIndices(queue, w) = <<0, 2, 1, 0, 2, 1>>)

\* C6 witness: a rectangular mesh on 4 relabelled wires has returned with
\* two beamsplitters in its first layer
C6_Witness ==
    /\ MeshCall
    /\ call.mesh = "rectangular"
    /\ WireList(call.wires) = Descending(4)
    /\ raised = "none"
    /\ Len(Beamsplitters) = 6
    /\ Beamsplitters[2].layer = 0

\* the pair index (0-based) the docstring gives for the j-th beamsplitter of
\* the triangular mesh, j = 1..4: wires N-1,N / N-2,N-1 / N-3,N-2 / N-1,N
\* counted from 1
DocPairIndex(j, N) ==
    CASE j = 1 -> N - 2
      [] j = 2 -> N - 3
      [] j = 3 -> N - 4
      [] j = 4 -> N - 2

Min(a, b) == IF a < b THEN a ELSE b

\* the layer structure of the triangular mesh: 2N-3 non-empty layers, queued
\* layer by layer and top to bottom within a layer
TriangularLayout(bs, w) ==
    /\ {bs[j].layer : j \in 1..Len(bs)} = 0..(2 * Len(w) - 4)
    /\ InScanOrder(bs, w)

Couplings(ops) ==
    LET bs == SelectSeq(ops, IsBeamsplitter)
    IN [j \in 1..Len(bs) |-> <<bs[j].wires, bs[j].par[1]>>]

\* C8: for both meshes and N >= 2, under beamsplitter='clements' every
\* beamsplitter is Beamsplitter(theta[n], 0) and is immediately preceded by
\* Rotation(phi[n]) on its first wire, with the same n; under any other
\* concrete value every beamsplitter is Beamsplitter(theta[n], phi[n]) and no
\* Rotation precedes a beamsplitter; the clements queue is N(N-1)/2 longer
\* than the queue of the same call under the other convention and has the
\* same beamsplitters on the same wire pairs in the same order.
C8_Convention ==
    MeshCall =>
        LET w == WireList(call.wires)
            N == Len(w)
            other == Interferometer(
                [call EXCEPT !.beamsplitter =
                    IF call.beamsplitter = "clements" THEN "pennylane" ELSE "clements"]).ops
        IN IF call.beamsplitter = "clements"
           THEN /\ \A i \in 1..Len(queue) :
                     IsBeamsplitter(queue[i]) =>
                        /\ queue[i].par[2] = Zero
                        /\ queue[i].par[1][1] = "theta"
                        /\ i > 1
                        /\ IsRotation(queue[i - 1])
                        /\ queue[i - 1].par = <<(<<"phi", queue[i].par[1][2]>>)>>
                        /\ queue[i - 1].wires = <<queue[i].wires[1]>>
                /\ 2 * Len(queue) = 2 * Len(other) + N * (N - 1)
                /\ Couplings(queue) = Couplings(other)
           ELSE /\ \A i \in 1..Len(queue) :
                     IsBeamsplitter(queue[i]) =>
                        /\ queue[i].par[1][1] = "theta"
                        /\ queue[i].par[2] = <<"phi", queue[i].par[1][2]>>
                        /\ \A h \in 1..(i - 1) : ~IsRotation(queue[h])
                /\ 2 * Len(other) = 2 * Len(queue) + N * (N - 1)
                /\ Couplings(queue) = Couplings(other)

\* C8 witness: a clements call on a triangular mesh of at least 3 wires has
\* returned, a Rotation heading its queue and a beamsplitter second
C8_Witness ==
    /\ MeshCall
    /\ call.mesh = "triangular"
    /\ call.beamsplitter = "clements"
    /\ Len(WireList(call.wires)) >= 3
    /\ raised = "none"
    /\ Len(queue) >= 6
    /\ IsRotation(queue[1])
    /\ IsBeamsplitter(queue[2])

\* the position in the queue of the last beamsplitter, 0 if there is none
LastBeamsplitter ==
    LET at == {i \in 1..Len(queue) : IsBeamsplitter(queue[i])}
    IN IF at = {} THEN 0 ELSE CHOOSE i \in at : \A j \in at : j <= i

\* C9: for N >= 2 (and len(varphi) <= N, the documented lengths being N-1 and
\* N) the call returns, and after the last beamsplitter the queue holds
\* exactly len(varphi) operations, the i-th being Rotation(varphi[i]) on w[i];
\* so no beamsplitter follows any of them, with len(varphi) = N every wire
\* has one final rotation and with len(varphi) = N-1 the last wire has none.
C9_FinalRotations ==
    (ConcreteCall /\ Len(WireList(call.wires)) >= 2
        /\ Len(call.varphi) <= Len(WireList(call.wires))) =>
        LET w == WireList(call.wires)
            N == Len(w)
            nv == Len(call.varphi)
            last == LastBeamsplitter
        IN /\ raised = "none"
           /\ Len(queue) = last + nv
           /\ \A i \in 1..nv :
                /\ IsRotation(queue[last + i])
                /\ queue[last + i].par = <<(<<"varphi", i - 1>>)>>
                /\ queue[last + i].wires = <<w[i]>>
           /\ (nv = N =>
                \A k \in 1..N :
                    Cardinality({i \in (last + 1)..Len(queue) : queue[i].wires = <<w[k]>>}) = 1)
           /\ (nv = N - 1 =>
                \A i \in (last + 1)..Len(queue) : queue[i].wires # <<w[N]>>)

\* C9 witness: a mesh call on 3 wires with len(varphi) = 2 has returned with
\* its two final rotations behind the third beamsplitter
C9_Witness ==
    /\ MeshCall
    /\ Len(WireList(call.wires)) = 3
    /\ Len(call.varphi) = 2
    /\ raised = "none"
    /\ LastBeamsplitter >= 3
    /\ Len(queue) = LastBeamsplitter + 2
    /\ IsRotation(queue[Len(queue)])

\* C10: a Variable passed as beamsplitter or as mesh makes the call fail
\* with QuantumFunctionError with nothing queued, for every N (N = 1
\* included) and whatever the other arguments are.
C10_ConfigurationRejected ==
    (call.fn = "Interferometer"
        /\ (IsVariable(call.beamsplitter) \/ IsVariable(call.mesh))) =>
        /\ raised = "QuantumFunctionError"
        /\ queue = <<>>
        /\ result.n = 0

\* C10 witness: a call on a single bare wire with mesh a Variable and a
\* concrete beamsplitter has failed with QuantumFunctionError
C10_Witness ==
    /\ call.fn = "Interferometer"
    /\ ~call.wires.isSequence
    /\ IsVariable(call.mesh)
    /\ call.beamsplitter = "clements"
    /\ Len(call.varphi) >= 1
    /\ raised = "QuantumFunctionError"
    /\ queue = <<>>

\* ------------------------------------------------ comparing structures

\* two leaves hold the same value: the same Variable, or numbers that compare
\* equal (2 == 2.0)
SameLeaf(a, b) ==
    /\ a.k = b.k
    /\ (a.k = "var" => a.idx = b.idx)
    /\ (a.k = "num" => a.i = b.i /\ a.half = b.half)
    /\ a.k \in {"var", "num"}

\* two flat sequences are equal element for element
SameFlat(f, g) ==
    /\ Len(f) = Len(g)
    /\ \A j \in 1..Len(f) : SameLeaf(f[j], g[j])

\* a and b have the same container type at every level, the same shape and
\* the same leaf values in the same positions (an array's dtype may differ)
RECURSIVE SameStructure(_, _)
SameStructure(a, b) ==
    /\ a.k = b.k
    /\ CASE a.k \in {"num", "var"} -> SameLeaf(a, b)
         [] a.k \in {"list", "tuple"} ->
               /\ Len(a.items) = Len(b.items)
               /\ \A j \in 1..Len(a.items) : SameStructure(a.items[j], b.items[j])
         [] a.k = "array" -> a.shape = b.shape /\ SameFlat(a.data, b.data)
         [] OTHER -> FALSE

\* the number of elements _flatten(model) yields
LeafCount(model) == Len(_flatten(model))

\* C2: unflatten(list(_flatten(M)), M) returns a value with the shape, the
\* container types and the leaf values of M, for every model M (empty
\* containers and rank-0 arrays included); and for every flat F with
\* len(F) = leaf count of M, list(_flatten(unflatten(F, M))) equals F
\* element for element.
C2_RoundTrip ==
    call.fn = "unflatten" =>
        /\ (call.flat = _flatten(call.model) =>
                raised = "none" /\ SameStructure(result, call.model))
        /\ (Len(call.flat) = LeafCount(call.model) =>
                raised = "none" /\ SameFlat(_flatten(result), call.flat))

\* C3: unflatten(F, M) with len(F) = leaf_count(M) + 1 raises ValueError, and
\* with len(F) = leaf_count(M) - 1 raises IndexError, for every model M; in
\* neither case is a structure returned.
C3_MismatchDetected ==
    call.fn = "unflatten" =>
        /\ (Len(call.flat) = LeafCount(call.model) + 1 =>
                raised = "ValueError" /\ result = NoValue)
        /\ (Len(call.flat) = LeafCount(call.model) - 1 =>
                raised = "IndexError" /\ result = NoValue)

\* C4: in _unflatten a rank-0 array model consumes exactly the first element
\* of flat and returns it as a rank-0 array of the model's dtype; every other
\* container of logical length 0 (empty list, empty tuple, array of shape
\* (0,) or (0, m)) consumes nothing and gives an empty container of the
\* model's container type.
C4_ZeroLength ==
    (call.fn = "_unflatten" /\ ~IsLeaf(call.model) /\ LogicalLength(call.model) = 0) =>
        IF call.model.k = "array" /\ call.model.shape = <<>>
        THEN (call.flat # <<>> /\ ~CastFails(call.flat[1], call.model.dtype)) =>
                /\ raised = "none"
                /\ result.tail = Tail(call.flat)
                /\ result.res.k = "array"
                /\ result.res.shape = <<>>
                /\ result.res.dtype = call.model.dtype
                /\ SameFlat(result.res.data, <<call.flat[1]>>)
        ELSE /\ raised = "none"
             /\ result.tail = call.flat
             /\ result.res.k = call.model.k
             /\ _flatten(result.res) = <<>>

\* every extent of the shape is at least 1
NonEmptyShape(shape) == \A j \in 1..Len(shape) : shape[j] >= 1

\* C5: for a rectangular numeric array model of rank >= 1 and a flat of
\* matching length, _unflatten returns an array of dtype object if one of the
\* consumed elements is a Variable (at whatever depth below the array being
\* rebuilt), and an array of the model's dtype if none is.
C5_SymbolicPromotion ==
    (/\ call.fn = "_unflatten"
     /\ call.model.k = "array"
     /\ call.model.dtype \in {"int64", "float64"}
     /\ Len(call.model.shape) >= 1
     /\ NonEmptyShape(call.model.shape)
     /\ Len(call.flat) = Prod(call.model.shape)) =>
        /\ raised = "none"
        /\ result.res.k = "array"
        /\ result.res.dtype =
                IF \E j \in 1..Len(call.flat) : call.flat[j].k = "var"
                THEN "object" ELSE call.model.dtype

\* ------------------------------------------------ single wire, unknown names

\* an Interferometer call with concrete mesh and beamsplitter on one wire: a
\* one-element sequence, or a bare wire that is wrapped into a list
SingleWireCall ==
    /\ ConcreteCall
    /\ Len(WireList(call.wires)) = 1

\* the queue holds exactly Rotation(varphi[0]) on the single wire
OneRotationQueued ==
    /\ Len(queue) = 1
    /\ IsRotation(queue[1])
    /\ queue[1].par = <<(<<"varphi", 0>>)>>
    /\ queue[1].wires = <<WireList(call.wires)[1]>>

C12_UnknownNames ==
    /\ (ConcreteCall /\ Len(WireList(call.wires)) >= 2
            /\ call.mesh \notin {"rectangular", "triangular"}) =>
            LET w == WireList(call.wires)
                nv == Len(call.varphi)
            IN /\ Beamsplitters = <<>>
               /\ result.n = 0
               /\ ReadsOf("theta") = <<>>
               /\ ReadsOf("phi") = <<>>
               /\ raised # "QuantumFunctionError"
               /\ (nv <= Len(w) =>
                    /\ raised = "none"
                    /\ Len(queue) = nv
                    /\ \A i \in 1..nv :
                         /\ IsRotation(queue[i])
                         /\ queue[i].par = <<(<<"varphi", i - 1>>)>>
                         /\ queue[i].wires = <<w[i]>>)
    /\ (ConcreteCall /\ call.beamsplitter \notin {"clements", "pennylane"}) =>
            LET fused == Interferometer([call EXCEPT !.beamsplitter = "pennylane"])
            IN /\ queue = fused.ops
               /\ raised = fused.exc
               /\ result.n = fused.n
               /\ \A i \in 1..Len(queue) :
                    IsBeamsplitter(queue[i]) =>
                        queue[i].par[2] = <<"phi", queue[i].par[1][2]>>

\* C12 witness: a call on 3 wires with the misspelled mesh 'rectangle', the
\* misspelled beamsplitter 'clement' and three varphi entries has returned
\* with three rotations queued
C12_Witness ==
    /\ ConcreteCall
    /\ call.mesh = "rectangle"
    /\ call.beamsplitter = "clement"
    /\ Len(WireList(call.wires)) = 3
    /\ Len(call.varphi) = 3
    /\ raised = "none"
    /\ Len(queue) = 3
    /\ IsRotation(queue[3])

====
